---- MODULE Spec2Model ----
(***************************************************************************)
(* Model of the two command-line scripts of the repository:                *)
(*                                                                         *)
(*   scripts/list_unencrypted_buckets.py            (the Encryption        *)
(*       Auditor: main, list_unencrypted_buckets, is_bucket_encrypted)     *)
(*   labs/lab-3-infrastructure-as-code/scripts/validate-templates.py       *)
(*       (the Template Checker: main, validate_yaml_syntax,                *)
(*       validate_cloudformation_template, check_security_best_practices)  *)
(*                                                                         *)
(* A behaviour is one run of one of three entry points, chosen by Init:    *)
(* the Template Checker's main ("checker"), the Encryption Auditor's main  *)
(* ("auditor"), or one call of check_security_best_practices ("security"). *)
(* Everything the environment decides (the command line, the files found,  *)
(* the outcome of every remote call, the content of the parsed document)   *)
(* is drawn from a small set at the step that reads it.                    *)
(***************************************************************************)
EXTENDS Integers, Sequences, FiniteSets, TLC

VARIABLES
    prog,           \* which entry point runs: "checker", "auditor", "security"
    pc,             \* position of the run in its code
    exit_code,      \* process exit status, -1 while the process runs
    \* ---- Template Checker, main()
    total_files,    \* len(files)
    file_idx,       \* number of files the for loop has taken
    yaml_valid,     \* result of the syntax check of the current file
    cf_valid,       \* result of the remote check of the current file
    passed_files,   \* counter of passed files
    calls,          \* the checks invoked so far, in order, with their outcome
    summary,        \* <<>> until the summary line is printed, then <<passed, total>>
    \* ---- Encryption Auditor
    list_outcome,   \* how list_buckets() ended ("" before the call)
    buckets,        \* number of buckets in the response; bucket i is named i
    bucket_idx,     \* number of buckets the for loop has taken
    fetched,        \* outcome of get_bucket_encryption for each bucket taken
    enc_result,     \* how the last is_bucket_encrypted call ended
    unencrypted,    \* the list built by list_unencrypted_buckets
    printed,        \* lines written to standard output
    \* ---- check_security_best_practices
    res_idx,        \* number of entries of Resources taken; entry i is named i
    resource,       \* the resource_config of the current entry
    rules_seen,     \* ingress rules of the current entry iterated so far
    issues,         \* the local list `issues`
    raised,         \* an exception was raised inside the try block
    result          \* the returned list

vars == <<prog, pc, exit_code,
          total_files, file_idx, yaml_valid, cf_valid, passed_files, calls, summary,
          list_outcome, buckets, bucket_idx, fetched, enc_result, unencrypted, printed,
          res_idx, resource, rules_seen, issues, raised, result>>

checkerVars  == <<total_files, file_idx, yaml_valid, cf_valid, passed_files, calls, summary>>
auditorVars  == <<list_outcome, buckets, bucket_idx, fetched, enc_result, unencrypted, printed>>
securityVars == <<res_idx, resource, rules_seen, issues, raised, result>>

\* ---- bounds of the model
MaxFiles     == 2
MaxBuckets   == 3
MaxResources == 2
MaxRules     == 2

\* ---- values every run starts from
NoResult   == [raised |-> FALSE, value |-> TRUE, exc |-> "", code |-> ""]
NoResource == [shape |-> "", type |-> "", props |-> "", present |-> {}, ingress |-> ""]

CheckerIdle ==
    /\ total_files = 0 /\ file_idx = 0
    /\ yaml_valid = FALSE /\ cf_valid = FALSE
    /\ passed_files = 0 /\ calls = <<>> /\ summary = <<>>

AuditorIdle ==
    /\ list_outcome = "" /\ buckets = 0 /\ bucket_idx = 0
    /\ fetched = <<>> /\ enc_result = NoResult
    /\ unencrypted = <<>> /\ printed = <<>>

SecurityIdle ==
    /\ res_idx = 0 /\ resource = NoResource /\ rules_seen = <<>>
    /\ issues = <<>> /\ raised = FALSE /\ result = <<>>

(***************************************************************************)
(* Encryption Auditor: scripts/list_unencrypted_buckets.py                 *)
(***************************************************************************)

NotFoundCode == "ServerSideEncryptionConfigurationNotFoundError"

\* Error codes a ClientError of get_bucket_encryption may carry; "" is a
\* response without Error.Code (what .get("Code", "") yields).
ErrorCodes == {NotFoundCode, "AccessDenied", "NoSuchBucket", ""}

\* How one get_bucket_encryption call may end.
FetchOutcomes ==
    {[exc |-> "none", code |-> ""]}
    \cup {[exc |-> "ClientError", code |-> c] : c \in ErrorCodes}
    \cup {[exc |-> "EndpointConnectionError", code |-> ""]}

\* Variant of is_bucket_encrypted that reads every ClientError as "no
\* configuration" without looking at the code.
is_bucket_encrypted_AnyClientError(fetch) ==
    IF fetch.exc = "none"
    THEN [raised |-> FALSE, value |-> TRUE, exc |-> "", code |-> ""]
    ELSE IF fetch.exc = "ClientError"
    THEN [raised |-> FALSE, value |-> FALSE, exc |-> "", code |-> ""]
    ELSE [raised |-> TRUE, value |-> FALSE, exc |-> fetch.exc, code |-> ""]

\* is_bucket_encrypted: True when the call succeeds, False on the not-found
\* code, and every other exception leaves the function.
is_bucket_encrypted(fetch) ==
    IF fetch.exc = "none"
    THEN [raised |-> FALSE, value |-> TRUE, exc |-> "", code |-> ""]
    ELSE IF fetch.exc = "ClientError"
    THEN IF fetch.code = NotFoundCode
         THEN [raised |-> FALSE, value |-> FALSE, exc |-> "", code |-> ""]
         ELSE [raised |-> TRUE, value |-> FALSE, exc |-> "ClientError", code |-> fetch.code]
    ELSE [raised |-> TRUE, value |-> FALSE, exc |-> fetch.exc, code |-> ""]

\* Variant of AppendIfUnencrypted with the test inverted.
AppendIfUnencrypted_Inverted(list, name, encrypted) ==
    IF encrypted THEN Append(list, name) ELSE list

\* if not is_bucket_encrypted(name, s3_client): unencrypted.append(name)
AppendIfUnencrypted(list, name, encrypted) ==
    IF encrypted THEN list ELSE Append(list, name)

Line(text, bucket, code) == [text |-> text, bucket |-> bucket, code |-> code]

\* An exception no handler of main() catches: the interpreter prints a
\* traceback and the process ends with status 1.
Uncaught(exc) ==
    /\ printed' = Append(printed, Line("Traceback", 0, exc))
    /\ pc' = "exited"
    /\ exit_code' = 1

\* main(), the except EndpointConnectionError handler around the listing.
NetworkError ==
    /\ printed' = Append(printed, Line("[ERROR] Network error while contacting AWS", 0, ""))
    /\ pc' = "exited"
    /\ exit_code' = 1

\* main(): s3 = boto3.client("s3")
AudClient ==
    /\ prog = "auditor" /\ pc = "client"
    /\ \E outcome \in {"ok", "NoCredentialsError", "ProfileNotFound"} :
          IF outcome = "ok"
          THEN /\ pc' = "list"
               /\ UNCHANGED <<exit_code, printed>>
          ELSE /\ printed' = Append(printed, Line("[ERROR] AWS credentials not found", 0, ""))
               /\ pc' = "exited"
               /\ exit_code' = 1
    /\ UNCHANGED <<prog, list_outcome, buckets, bucket_idx, fetched, enc_result, unencrypted>>
    /\ UNCHANGED <<checkerVars, securityVars>>

\* list_unencrypted_buckets: response = s3_client.list_buckets()
AudList ==
    /\ prog = "auditor" /\ pc = "list"
    /\ \E outcome \in {"ok", "ClientError", "EndpointConnectionError", "NoCredentialsError"} :
          /\ list_outcome' = outcome
          /\ IF outcome = "ok"
             THEN /\ \E n \in 0..MaxBuckets : buckets' = n
                  /\ pc' = "loop"
                  /\ UNCHANGED <<exit_code, printed>>
             ELSE IF outcome \in {"ClientError", "EndpointConnectionError"}
             THEN \* reported, and the function returns []
                  /\ printed' = Append(printed, Line("[ERROR] Unable to list buckets", 0, outcome))
                  /\ pc' = "print"
                  /\ UNCHANGED <<exit_code, buckets>>
             ELSE /\ Uncaught(outcome)
                  /\ UNCHANGED buckets
    /\ UNCHANGED <<prog, bucket_idx, fetched, enc_result, unencrypted>>
    /\ UNCHANGED <<checkerVars, securityVars>>

\* list_unencrypted_buckets: one iteration of the for loop
AudBucket ==
    /\ prog = "auditor" /\ pc = "loop" /\ bucket_idx < buckets
    /\ \E fetch \in FetchOutcomes :
          LET name == bucket_idx + 1
              r    == is_bucket_encrypted(fetch)
          IN  /\ bucket_idx' = name
              /\ fetched' = Append(fetched, fetch)
              /\ enc_result' = r
              /\ IF ~r.raised
                 THEN /\ unencrypted' = AppendIfUnencrypted(unencrypted, name, r.value)
                      /\ UNCHANGED <<pc, exit_code, printed>>
                 ELSE IF r.exc = "ClientError"
                 THEN IF r.code # ""
                      THEN /\ printed' = Append(printed, Line("[WARN] Skipping bucket", name, r.code))
                           /\ UNCHANGED <<pc, exit_code, unencrypted>>
                      ELSE \* err.response['Error']['Code'] raises KeyError in the handler
                           /\ Uncaught("KeyError")
                           /\ UNCHANGED unencrypted
                 ELSE /\ NetworkError
                      /\ UNCHANGED unencrypted
    /\ UNCHANGED <<prog, list_outcome, buckets>>
    /\ UNCHANGED <<checkerVars, securityVars>>

\* list_unencrypted_buckets: the loop is over, return unencrypted
AudReturn ==
    /\ prog = "auditor" /\ pc = "loop" /\ bucket_idx = buckets
    /\ pc' = "print"
    /\ UNCHANGED <<prog, exit_code, auditorVars, checkerVars, securityVars>>

RECURSIVE BucketLines(_)
BucketLines(names) ==
    IF names = <<>> THEN <<>>
    ELSE <<Line("bullet", Head(names), "")>> \o BucketLines(Tail(names))

\* main(): print the result; the script ends and the status is 0
AudPrint ==
    /\ prog = "auditor" /\ pc = "print"
    /\ printed' = IF unencrypted # <<>>
                  THEN printed \o <<Line("Unencrypted buckets detected", 0, "")>>
                               \o BucketLines(unencrypted)
                  ELSE Append(printed, Line("All buckets have default server-side encryption enabled", 0, ""))
    /\ pc' = "exited"
    /\ exit_code' = 0
    /\ UNCHANGED <<prog, list_outcome, buckets, bucket_idx, fetched, enc_result, unencrypted>>
    /\ UNCHANGED <<checkerVars, securityVars>>

InitAuditor ==
    /\ prog = "auditor" /\ pc = "client" /\ exit_code = -1
    /\ CheckerIdle /\ AuditorIdle /\ SecurityIdle

NextAuditor == AudClient \/ AudList \/ AudBucket \/ AudReturn \/ AudPrint

(***************************************************************************)
(* check_security_best_practices: validate-templates.py                    *)
(*                                                                         *)
(* The parsed document is a tree of YAML values.  A value is modelled by   *)
(* what the code can do with it: "map" is a mapping (.get and .items       *)
(* work), "list" is a list or string (`in` and iteration work, .get does   *)
(* not), "null" is None or a number (none of them works).  The entries of  *)
(* Resources are read one per loop iteration; entry i has the key i.       *)
(***************************************************************************)

SshPort == 22
RdpPort == 3389

S3Bucket      == "AWS::S3::Bucket"
SecurityGroup == "AWS::EC2::SecurityGroup"
OpenCidr      == "0.0.0.0/0"

Blocks == {"PublicAccessBlockConfiguration", "BucketEncryption", "VersioningConfiguration"}

\* An issue string f"{resource_name}: {text}", with the port the text carries
\* (0 when it carries none).
Issue(name, text, port) == [resource |-> name, text |-> text, port |-> port]

ErrorIssue == Issue(0, "Error checking security practices", 0)

Cfg(shape, type, props, present, ingress) ==
    [shape |-> shape, type |-> type, props |-> props, present |-> present, ingress |-> ingress]

\* The resource_config values an entry of Resources is drawn from.  present
\* is the set of block names found in Properties; ingress is the shape of
\* Properties.SecurityGroupIngress ("absent" is the default []).
ResourceConfigs ==
    {Cfg("notmap", "", "", {}, "")}
    \cup {Cfg("map", S3Bucket, p, s, "") : p \in {"map", "list"}, s \in SUBSET Blocks}
    \cup {Cfg("map", S3Bucket, "null", {}, "")}
    \cup {Cfg("map", SecurityGroup, p, {}, "") : p \in {"list", "null"}}
    \cup {Cfg("map", SecurityGroup, "map", {}, g) : g \in {"absent", "list", "null"}}
    \cup {Cfg("map", "Other", p, {}, "") : p \in {"map", "null"}}

\* The ingress rules a rule is drawn from.  A mapping without CidrIp and
\* FromPort reads as the defaults '' and 0.
Rules ==
    {[shape |-> "notmap", cidr |-> "", port |-> 0]}
    \cup {[shape |-> "map", cidr |-> "", port |-> 0]}
    \cup {[shape |-> "map", cidr |-> c, port |-> p] :
             c \in {OpenCidr, "10.0.0.0/8"}, p \in {SshPort, RdpPort, 80}}

\* Variant of BucketIssues that tests versioning before encryption.
BucketIssues_Reordered(name, present) ==
    (IF "PublicAccessBlockConfiguration" \notin present
     THEN <<Issue(name, "Missing PublicAccessBlockConfiguration", 0)>> ELSE <<>>)
    \o (IF "VersioningConfiguration" \notin present
        THEN <<Issue(name, "Missing VersioningConfiguration", 0)>> ELSE <<>>)
    \o (IF "BucketEncryption" \notin present
        THEN <<Issue(name, "Missing BucketEncryption", 0)>> ELSE <<>>)

\* The three `not in properties` tests of a bucket, in the order of the code.
BucketIssues(name, present) ==
    (IF "PublicAccessBlockConfiguration" \notin present
     THEN <<Issue(name, "Missing PublicAccessBlockConfiguration", 0)>> ELSE <<>>)
    \o (IF "BucketEncryption" \notin present
        THEN <<Issue(name, "Missing BucketEncryption", 0)>> ELSE <<>>)
    \o (IF "VersioningConfiguration" \notin present
        THEN <<Issue(name, "Missing VersioningConfiguration", 0)>> ELSE <<>>)

\* Variant of RuleIssues that does not look at the source range.
RuleIssues_AnyCidr(name, rule) ==
    IF rule.port \in {SshPort, RdpPort}
    THEN <<Issue(name, "Allows", rule.port)>>
    ELSE <<>>

\* The body of `for rule in ingress_rules` for a rule that is a mapping.
RuleIssues(name, rule) ==
    IF rule.cidr = OpenCidr
    THEN IF rule.port \in {SshPort, RdpPort}
         THEN <<Issue(name, "Allows", rule.port)>>
         ELSE <<>>
    ELSE <<>>

\* Variant of ErrorResult that keeps what was collected before the raise.
ErrorResult_KeepsIssues(iss) == iss \o <<ErrorIssue>>

\* The value the except handler returns; iss is `issues` at the raise.
ErrorResult(iss) == <<ErrorIssue>>

\* except Exception as e: return [f"Error checking security practices: ..."]
SecExcept ==
    /\ raised' = TRUE
    /\ result' = ErrorResult(issues)
    /\ pc' = "returned"

\* open, yaml.safe_load, template.get('Resources', {}), resources.items().
\* A document without Resources is walked as one with no entries.
SecLoad ==
    /\ prog = "security" /\ pc = "load"
    /\ \E load \in {"ok", "error"}, top \in {"map", "notmap"}, res \in {"map", "notmap"} :
          IF load = "ok" /\ top = "map" /\ res = "map"
          THEN /\ pc' = "walk"
               /\ UNCHANGED <<raised, result>>
          ELSE SecExcept
    /\ UNCHANGED <<prog, exit_code, res_idx, resource, rules_seen, issues>>
    /\ UNCHANGED <<checkerVars, auditorVars>>

\* One iteration of `for resource_name, resource_config in resources.items()`
\* up to the loop over the ingress rules.
SecResource ==
    /\ prog = "security" /\ pc = "walk" /\ res_idx < MaxResources
    /\ \E config \in ResourceConfigs :
          LET name == res_idx + 1
          IN  /\ res_idx' = name
              /\ resource' = config
              /\ rules_seen' = <<>>
              /\ IF config.shape # "map"
                 THEN SecExcept /\ UNCHANGED issues
                 ELSE IF config.type = S3Bucket
                 THEN IF config.props = "null"
                      THEN SecExcept /\ UNCHANGED issues
                      ELSE /\ issues' = issues \o BucketIssues(name, config.present)
                           /\ UNCHANGED <<pc, raised, result>>
                 ELSE IF config.type = SecurityGroup
                 THEN IF config.props # "map" \/ config.ingress = "null"
                      THEN SecExcept /\ UNCHANGED issues
                      ELSE /\ pc' = IF config.ingress = "list" THEN "rules" ELSE "walk"
                           /\ UNCHANGED <<issues, raised, result>>
                 ELSE UNCHANGED <<pc, issues, raised, result>>
    /\ UNCHANGED <<prog, exit_code>>
    /\ UNCHANGED <<checkerVars, auditorVars>>

\* One iteration of `for rule in ingress_rules`
SecRule ==
    /\ prog = "security" /\ pc = "rules" /\ Len(rules_seen) < MaxRules
    /\ \E rule \in Rules :
          /\ rules_seen' = Append(rules_seen, rule)
          /\ IF rule.shape # "map"
             THEN SecExcept /\ UNCHANGED issues
             ELSE /\ issues' = issues \o RuleIssues(res_idx, rule)
                  /\ UNCHANGED <<pc, raised, result>>
    /\ UNCHANGED <<prog, exit_code, res_idx, resource>>
    /\ UNCHANGED <<checkerVars, auditorVars>>

\* The list of ingress rules is exhausted.
SecEndRules ==
    /\ prog = "security" /\ pc = "rules"
    /\ pc' = "walk"
    /\ UNCHANGED <<prog, exit_code, securityVars, checkerVars, auditorVars>>

\* Resources is exhausted: return issues
SecReturn ==
    /\ prog = "security" /\ pc = "walk"
    /\ result' = issues
    /\ pc' = "returned"
    /\ UNCHANGED <<prog, exit_code, res_idx, resource, rules_seen, issues, raised>>
    /\ UNCHANGED <<checkerVars, auditorVars>>

InitSecurity ==
    /\ prog = "security" /\ pc = "load" /\ exit_code = -1
    /\ CheckerIdle /\ AuditorIdle /\ SecurityIdle

NextSecurity == SecLoad \/ SecResource \/ SecRule \/ SecEndRules \/ SecReturn

(***************************************************************************)
(* Template Checker: validate-templates.py, main()                         *)
(***************************************************************************)

\* Variant of validate_yaml_syntax whose catch-all handler reports success.
validate_yaml_syntax_Lenient(outcome) ==
    IF outcome = "YAMLError" THEN [valid |-> FALSE, message |-> "YAML syntax error"]
    ELSE [valid |-> TRUE, message |-> "Valid YAML syntax"]

\* validate_yaml_syntax: how open/yaml.safe_load ended decides the result.
validate_yaml_syntax(outcome) ==
    IF outcome = "ok" THEN [valid |-> TRUE, message |-> "Valid YAML syntax"]
    ELSE IF outcome = "YAMLError" THEN [valid |-> FALSE, message |-> "YAML syntax error"]
    ELSE [valid |-> FALSE, message |-> "Error reading file"]

\* Variant of validate_cloudformation_template without the
\* NoCredentialsError handler's failure result.
validate_cloudformation_template_NoCredsValid(outcome) ==
    IF outcome \in {"ok", "NoCredentialsError"}
    THEN [valid |-> TRUE, message |-> "Valid CloudFormation template"]
    ELSE IF outcome = "ClientError"
    THEN [valid |-> FALSE, message |-> "CloudFormation validation error"]
    ELSE [valid |-> FALSE, message |-> "Unexpected error"]

\* validate_cloudformation_template: how client creation, the read and
\* validate_template ended decides the result.
validate_cloudformation_template(outcome) ==
    IF outcome = "ok" THEN [valid |-> TRUE, message |-> "Valid CloudFormation template"]
    ELSE IF outcome = "NoCredentialsError"
    THEN [valid |-> FALSE, message |-> "AWS credentials not configured"]
    ELSE IF outcome = "ClientError"
    THEN [valid |-> FALSE, message |-> "CloudFormation validation error"]
    ELSE [valid |-> FALSE, message |-> "Unexpected error"]

\* Lists check_security_best_practices may return to main().
SecurityResults ==
    {<<>>, <<Issue(1, "Missing BucketEncryption", 0)>>, <<ErrorIssue>>}

Call(fn, file, outcome, valid) ==
    [fn |-> fn, file |-> file, outcome |-> outcome, valid |-> valid]

\* Variant of Continue that ends the run when credentials are missing.
Continue_FatalNoCredentials(outcome) ==
    IF outcome = "NoCredentialsError"
    THEN pc' = "exited" /\ exit_code' = 1
    ELSE pc' = "loop" /\ UNCHANGED exit_code

\* The failed branch of a check, whatever the failure: print and `continue`.
Continue(outcome) ==
    /\ pc' = "loop"
    /\ UNCHANGED exit_code

\* main(): the argument test and the collection of the files
MainArgs ==
    /\ prog = "checker" /\ pc = "args"
    /\ \E argc \in {1, 2}, target \in {"file", "dir", "other"}, n \in 0..MaxFiles :
          IF argc < 2 \/ target = "other"
          THEN /\ pc' = "exited"
               /\ exit_code' = 1
               /\ UNCHANGED total_files
          ELSE /\ total_files' = IF target = "file" THEN 1 ELSE n
               /\ pc' = "loop"
               /\ UNCHANGED exit_code
    /\ UNCHANGED <<prog, file_idx, yaml_valid, cf_valid, passed_files, calls, summary>>
    /\ UNCHANGED <<auditorVars, securityVars>>

\* main(): the loop takes the next file and checks its syntax
MainSyntax ==
    /\ prog = "checker" /\ pc = "loop" /\ file_idx < total_files
    /\ \E outcome \in {"ok", "YAMLError", "Exception"} :
          LET r == validate_yaml_syntax(outcome)
          IN  /\ file_idx' = file_idx + 1
              /\ yaml_valid' = r.valid
              /\ calls' = Append(calls, Call("validate_yaml_syntax", file_idx + 1, outcome, r.valid))
              /\ IF r.valid
                 THEN pc' = "remote" /\ UNCHANGED exit_code
                 ELSE Continue(outcome)
    /\ UNCHANGED <<prog, total_files, cf_valid, passed_files, summary>>
    /\ UNCHANGED <<auditorVars, securityVars>>

\* main(): the remote check of the current file
MainRemote ==
    /\ prog = "checker" /\ pc = "remote"
    /\ \E outcome \in {"ok", "NoCredentialsError", "ClientError", "Exception"} :
          LET r == validate_cloudformation_template(outcome)
          IN  /\ cf_valid' = r.valid
              /\ calls' = Append(calls, Call("validate_cloudformation_template", file_idx, outcome, r.valid))
              /\ IF r.valid
                 THEN pc' = "security" /\ UNCHANGED exit_code
                 ELSE Continue(outcome)
    /\ UNCHANGED <<prog, total_files, file_idx, yaml_valid, passed_files, summary>>
    /\ UNCHANGED <<auditorVars, securityVars>>

\* main(): the security check of the current file, then the count
MainSecurity ==
    /\ prog = "checker" /\ pc = "security"
    /\ \E security_issues \in SecurityResults :
          calls' = Append(calls, Call("check_security_best_practices", file_idx,
                                      IF security_issues = <<>> THEN "no issues" ELSE "issues", TRUE))
    /\ passed_files' = IF yaml_valid /\ cf_valid THEN passed_files + 1 ELSE passed_files
    /\ pc' = "loop"
    /\ UNCHANGED <<prog, exit_code, total_files, file_idx, yaml_valid, cf_valid, summary>>
    /\ UNCHANGED <<auditorVars, securityVars>>

\* Variant of ExitStatus that is content with one passed file.
ExitStatus_AnyPassed(passed, total) == IF passed > 0 \/ total = 0 THEN 0 ELSE 1

\* The status main() exits with after the summary.
ExitStatus(passed, total) == IF passed = total THEN 0 ELSE 1

\* main(): the loop is over: the summary and the exit
MainSummary ==
    /\ prog = "checker" /\ pc = "loop" /\ file_idx = total_files
    /\ summary' = <<passed_files, total_files>>
    /\ exit_code' = ExitStatus(passed_files, total_files)
    /\ pc' = "exited"
    /\ UNCHANGED <<prog, total_files, file_idx, yaml_valid, cf_valid, passed_files, calls>>
    /\ UNCHANGED <<auditorVars, securityVars>>

InitChecker ==
    /\ prog = "checker" /\ pc = "args" /\ exit_code = -1
    /\ CheckerIdle /\ AuditorIdle /\ SecurityIdle

NextChecker == MainArgs \/ MainSyntax \/ MainRemote \/ MainSecurity \/ MainSummary

(***************************************************************************)
(* The specifications                                                      *)
(***************************************************************************)

Init == InitChecker \/ InitAuditor \/ InitSecurity

Next == NextChecker \/ NextAuditor \/ NextSecurity

Spec == Init /\ [][Next]_vars

\* Both scripts are sequential and every call returns or raises, so a run
\* that can take a step takes it.
FairSpec == Init /\ [][Next]_vars /\ WF_vars(Next)

(***************************************************************************)
(* Properties                                                              *)
(***************************************************************************)

SyntaxFn   == "validate_yaml_syntax"
RemoteFn   == "validate_cloudformation_template"
SecurityFn == "check_security_best_practices"

CallIdx == 1..Len(calls)

\* The files for which a call of fn ended with the given outcome.
FilesWith(fn, outcome) ==
    {calls[k].file : k \in {j \in CallIdx : calls[j].fn = fn /\ calls[j].outcome = outcome}}

\* The files a call of fn was made for, in call order.
FilesChecked(fn) ==
    LET cs == SelectSeq(calls, LAMBDA c : c.fn = fn)
    IN  [k \in 1..Len(cs) |-> cs[k].file]

\* The summary was printed: the run ended through the last lines of main().
ViaSummary == pc = "exited" /\ summary # <<>>

\* C1: a file is counted in passed_files iff its syntax check and its remote
\* check both succeeded, whatever the security check returned; after the
\* summary the exit status is 0 iff passed_files equals the number of files,
\* and 1 otherwise; a run that ends without a summary (missing argument,
\* invalid target) ends with status 1 and has checked no file.
C1_PassedCountAndExitStatus ==
    prog = "checker" =>
        /\ pc \in {"loop", "exited"} =>
              passed_files = Cardinality(FilesWith(SyntaxFn, "ok") \cap FilesWith(RemoteFn, "ok"))
        /\ ViaSummary =>
              /\ summary = <<passed_files, total_files>>
              /\ exit_code \in {0, 1}
              /\ exit_code = 0 <=> passed_files = total_files
        /\ (pc = "exited" /\ summary = <<>>) =>
              /\ exit_code = 1
              /\ calls = <<>>

\* Two files passed and exit 0 although the security check reported issues.
C1_Witness ==
    /\ prog = "checker" /\ ViaSummary /\ exit_code = 0
    /\ passed_files = 2 /\ total_files = 2
    /\ \E k \in CallIdx : calls[k].fn = SecurityFn /\ calls[k].outcome = "issues"

\* The buckets taken so far whose fetch ended with the not-found code, in
\* enumeration order.
RECURSIVE NotFoundUpTo(_)
NotFoundUpTo(k) ==
    IF k = 0 THEN <<>>
    ELSE NotFoundUpTo(k - 1)
         \o (IF fetched[k] = [exc |-> "ClientError", code |-> NotFoundCode] THEN <<k>> ELSE <<>>)

\* The fetch ended with success or with a ClientError that carries a code.
Coded(fetch) == fetch.exc = "none" \/ (fetch.exc = "ClientError" /\ fetch.code # "")

OtherCode(fetch) == fetch.exc = "ClientError" /\ fetch.code \notin {"", NotFoundCode}

CredentialsLine == Line("[ERROR] AWS credentials not found", 0, "")
SuccessLine     == Line("All buckets have default server-side encryption enabled", 0, "")

C3_ListConnectivityFailureExits1 ==
    (prog = "auditor" /\ list_outcome = "EndpointConnectionError") =>
        /\ pc # "print"
        /\ exit_code # 0
        /\ \A k \in 1..Len(printed) : printed[k] # SuccessLine /\ printed[k].text # "bullet"
        /\ pc = "exited" => exit_code = 1

\* C4: for every file the syntax check is the first call; a remote check is
\* made only directly after that file's successful syntax check; a security
\* check is made only directly after that file's successful remote check; a
\* file whose syntax check failed gets neither later check, and a file whose
\* remote check failed gets no security check.
C4_PipelineOrder ==
    prog = "checker" =>
        /\ \A k \in CallIdx :
              /\ calls[k].fn \in {SyntaxFn, RemoteFn, SecurityFn}
              /\ calls[k].fn = SyntaxFn =>
                    \A j \in 1..(k - 1) : calls[j].file # calls[k].file
              /\ calls[k].fn = RemoteFn =>
                    /\ k > 1
                    /\ calls[k - 1].fn = SyntaxFn
                    /\ calls[k - 1].file = calls[k].file
                    /\ calls[k - 1].outcome = "ok"
              /\ calls[k].fn = SecurityFn =>
                    /\ k > 2
                    /\ calls[k - 1].fn = RemoteFn
                    /\ calls[k - 1].file = calls[k].file
                    /\ calls[k - 1].outcome = "ok"
                    /\ calls[k - 2].fn = SyntaxFn
                    /\ calls[k - 2].file = calls[k].file
                    /\ calls[k - 2].outcome = "ok"
        /\ \A j, k \in CallIdx :
              (calls[j].file = calls[k].file /\ calls[j].fn = SyntaxFn /\ calls[j].outcome # "ok")
                  => calls[k].fn = SyntaxFn
        /\ \A j, k \in CallIdx :
              (calls[j].file = calls[k].file /\ calls[j].fn = RemoteFn /\ calls[j].outcome # "ok")
                  => calls[k].fn # SecurityFn

\* File 1 failed its syntax check and got no other check; file 2 went
\* through all three checks.
C4_Witness ==
    /\ prog = "checker" /\ Len(calls) = 4
    /\ calls[1].fn = SyntaxFn /\ calls[1].file = 1 /\ calls[1].outcome = "Exception"
    /\ calls[2].fn = SyntaxFn /\ calls[2].file = 2
    /\ calls[3].fn = RemoteFn /\ calls[4].fn = SecurityFn

\* C5: while every fetch so far ended with success or a coded ClientError,
\* the loop is neither stopped nor skipped: unencrypted holds exactly the
\* buckets whose fetch ended with the not-found code, in enumeration order;
\* a bucket with any other code is not in the list and has its warning
\* printed; and the list is returned only after every bucket was fetched.
C5_UnencryptedList ==
    (prog = "auditor" /\ list_outcome = "ok") =>
        /\ unencrypted = NotFoundUpTo(Len(fetched))
        /\ (\A i \in 1..Len(fetched) : Coded(fetched[i])) =>
              /\ Len(fetched) = bucket_idx
              /\ pc \in {"loop", "print", "exited"}
              /\ pc \in {"print", "exited"} => bucket_idx = buckets
              /\ pc = "exited" => exit_code = 0
              /\ \A i \in 1..Len(fetched) :
                    OtherCode(fetched[i]) =>
                        /\ \A k \in 1..Len(unencrypted) : unencrypted[k] # i
                        /\ \E k \in 1..Len(printed) :
                              printed[k] = Line("[WARN] Skipping bucket", i, fetched[i].code)

\* Three buckets: access denied, not found, encrypted; the list returned
\* holds the second only.
C5_Witness ==
    /\ prog = "auditor" /\ pc = "print"
    /\ fetched = << [exc |-> "ClientError", code |-> "AccessDenied"],
                    [exc |-> "ClientError", code |-> NotFoundCode],
                    [exc |-> "none", code |-> ""] >>
    /\ unencrypted = <<2>>

\* C6: is_bucket_encrypted returns False iff the fetch failed with the
\* not-found code, returns True when the fetch succeeded, and re-raises the
\* ClientError for every other code, the missing code included.
C6_IsBucketEncrypted ==
    (prog = "auditor" /\ fetched # <<>>) =>
        LET fetch == fetched[Len(fetched)]
        IN  /\ (~enc_result.raised /\ ~enc_result.value)
                  <=> (fetch.exc = "ClientError" /\ fetch.code = NotFoundCode)
            /\ fetch.exc = "none" => (~enc_result.raised /\ enc_result.value)
            /\ (fetch.exc = "ClientError" /\ fetch.code # NotFoundCode) =>
                  /\ enc_result.raised
                  /\ enc_result.exc = "ClientError"
                  /\ enc_result.code = fetch.code

\* A ClientError without a code was re-raised.
C6_Witness ==
    /\ prog = "auditor" /\ fetched # <<>>
    /\ fetched[Len(fetched)] = [exc |-> "ClientError", code |-> ""]
    /\ enc_result.raised

\* The issues collected so far that name resource n.
IssuesNaming(n) == SelectSeq(issues, LAMBDA i : i.resource = n)

\* An ingress rule from anywhere to the SSH or the RDP port.
OpenAdminRule(rule) == rule.cidr = "0.0.0.0/0" /\ rule.port \in {22, 3389}

\* C7: while a security group's ingress rules are walked without an error,
\* the issues naming that resource are one per rule seen whose CidrIp is
\* 0.0.0.0/0 and whose FromPort is 22 or 3389, each with that rule's port,
\* in rule order; a rule with another range or port adds none.
C7_SecurityGroupRule ==
    (prog = "security" /\ ~raised /\ resource.shape = "map" /\ resource.type = SecurityGroup) =>
        LET open == SelectSeq(rules_seen, OpenAdminRule)
            mine == IssuesNaming(res_idx)
        IN  /\ Len(mine) = Len(open)
            /\ \A k \in 1..Len(mine) : mine[k] = Issue(res_idx, "Allows", open[k].port)

\* Two rules of one group were walked, the RDP rule open to anywhere and a
\* rule from a private range to the SSH port: one issue.
C7_Witness ==
    /\ prog = "security" /\ ~raised /\ Len(rules_seen) = 2
    /\ rules_seen[1] = [shape |-> "map", cidr |-> "0.0.0.0/0", port |-> 3389]
    /\ rules_seen[2] = [shape |-> "map", cidr |-> "10.0.0.0/8", port |-> 22]
    /\ IssuesNaming(res_idx) = <<Issue(res_idx, "Allows", 3389)>>

BlockOrder == <<"PublicAccessBlockConfiguration", "BucketEncryption", "VersioningConfiguration">>

MissingTexts ==
    {"Missing PublicAccessBlockConfiguration", "Missing BucketEncryption", "Missing VersioningConfiguration"}

\* C8: after a bucket resource was walked without an error, the issues
\* naming it are one "Missing <block>" per block absent from its Properties,
\* in the order public access block, encryption, versioning; a resource of
\* another type has no such issue.
C8_BucketRule ==
    (prog = "security" /\ ~raised /\ resource.shape = "map") =>
        LET mine    == IssuesNaming(res_idx)
            missing == SelectSeq(BlockOrder, LAMBDA b : b \notin resource.present)
        IN  IF resource.type = S3Bucket
            THEN /\ Len(mine) = 3 - Cardinality(resource.present)
                 /\ Len(mine) = Len(missing)
                 /\ \A k \in 1..Len(mine) :
                       /\ mine[k].resource = res_idx
                       /\ mine[k].text = IF missing[k] = "PublicAccessBlockConfiguration"
                                         THEN "Missing PublicAccessBlockConfiguration"
                                         ELSE IF missing[k] = "BucketEncryption"
                                         THEN "Missing BucketEncryption"
                                         ELSE "Missing VersioningConfiguration"
            ELSE \A k \in 1..Len(mine) : mine[k].text \notin MissingTexts

\* The second resource is a bucket with only the public access block: two
\* issues, encryption before versioning.
C8_Witness ==
    /\ prog = "security" /\ ~raised /\ res_idx = 2
    /\ resource.type = S3Bucket
    /\ resource.present = {"PublicAccessBlockConfiguration"}
    /\ IssuesNaming(2) = <<Issue(2, "Missing BucketEncryption", 0),
                           Issue(2, "Missing VersioningConfiguration", 0)>>

====
